---------------------------- MODULE Spec2Model ----------------------------
(***************************************************************************)
(* Model of the API Gateway troubleshooting checks (CheckLogs.py).         *)
(*                                                                         *)
(* Strings are modelled as sequences of tokens: a token stands for a run   *)
(* of characters that the regular expressions of the catalog treat as a    *)
(* unit (an error phrase, a parenthesised request id, a newline, filler).  *)
(* The empty Python string is the empty sequence.                          *)
(***************************************************************************)
EXTENDS Integers, Sequences, FiniteSets, TLC

(***************************************************************************)
(* Tokens                                                                  *)
(***************************************************************************)
NL  == "\n"
SP  == " "
X   == "x"
U1  == "(123e4567-e89b-12d3-a456-426614174000)"
U2  == "(0fedcba9-8765-4321-0fed-cba987654321)"

NetU  == "Network error communicating with endpoint"
NetL  == "network error communicating with endpoint"
EFC   == "Execution failed due to configuration error"
IEA   == ": Invalid endpoint address"
TMO   == "Execution failed due to a timeout error"
MLP   == "Malformed Lambda proxy response"
L429  == "Lambda invocation failed with status: 429"
U401  == "401 Unauthorized"
MAT   == "Missing Authentication Token"
NAP   == "not authorized to perform: execute-api:Invoke on resource"
NAA   == "not authorized to access this resource"
UAN   == "User: anonymous is "
UIS   == "User is "
WED   == " with an explicit deny"
STI   == "The security token included in the request is invalid"
SGX   == "Signature expired"
IAK   == "Invalid API Key identifier specified"
SGM   == "The request signature we calculated does not match the signature you provided"
FBD   == "Forbidden"
AHR   == "Authorization header requires"
M502  == "Method completed with status: 502"

REDACTED == " [sensitive information has been redacted]"

\* [0-9a-f]{8}-[0-9a-f]{4}-[0-9a-f]{4}-[0-9a-f]{4}-[0-9a-f]{12} in parentheses
UuidClass == {U1, U2}

KC == "https://repost.aws/knowledge-center/"

(***************************************************************************)
(* ErrorPattern and the ERRORS catalog.  Every pattern is a phrase P with  *)
(* dot-star on both sides and is kept as P, a sequence of token classes.   *)
(* Every redacted_message_pattern is a uuid group, dot-star, a phrase      *)
(* group and dot-star, and is kept as its phrase; the default empty        *)
(* pattern is the empty phrase.  ERRORS[i] is the rule at Python index     *)
(* i-1.                                                                    *)
(***************************************************************************)
ErrorPattern(pattern, articles, redact, redacted_message_pattern) ==
    [pattern |-> pattern, articles |-> articles, redact |-> redact,
     redacted_message_pattern |-> redacted_message_pattern]

ERRORS ==
    << ErrorPattern(<<{NetU, NetL}>>, <<"api-gateway-network-endpoint-error">>, FALSE, <<>>),
       ErrorPattern(<<{EFC}, {IEA}>>, <<"api-gateway-invalid-endpoint-address">>, FALSE, <<>>),
       ErrorPattern(<<{TMO}>>, <<"api-gateway-lambda-integration-errors">>, FALSE, <<>>),
       ErrorPattern(<<{MLP}>>, <<"api-gateway-lambda-integration-errors">>, FALSE, <<>>),
       ErrorPattern(<<{L429}>>, <<"api-gateway-lambda-integration-errors">>, FALSE, <<>>),
       ErrorPattern(<<{U401}>>,
                    <<"api-gateway-cognito-401-unauthorized",
                      "api-gateway-401-error-lambda-authorizer">>,
                    TRUE, <<{U401}>>),
       ErrorPattern(<<{MAT}>>,
                    <<"api-gateway-authentication-token-errors",
                      "api-gateway-troubleshoot-403-forbidden">>,
                    FALSE, <<>>),
       ErrorPattern(<<{NAP}>>,
                    <<"api-gateway-403-error-lambda-authorizer",
                      "api-gateway-troubleshoot-403-forbidden">>,
                    TRUE, <<{NAP}>>),
       ErrorPattern(<<{NAA}>>, <<"api-gateway-403-error-lambda-authorizer">>,
                    TRUE, <<{NAA}>>),
       ErrorPattern(<<{UAN}, {NAP}>>,
                    <<"api-gateway-403-error-lambda-authorizer",
                      "api-gateway-troubleshoot-403-forbidden">>,
                    TRUE, <<{NAP}>>),
       ErrorPattern(<<{UIS}, {NAA}, {WED}>>, <<"api-gateway-troubleshoot-403-forbidden">>,
                    TRUE, <<{NAP}>>),
       ErrorPattern(<<{STI}>>, <<"api-gateway-troubleshoot-403-forbidden">>, FALSE, <<>>),
       ErrorPattern(<<{SGX}>>, <<"api-gateway-troubleshoot-403-forbidden">>, FALSE, <<>>),
       ErrorPattern(<<{IAK}>>, <<"api-gateway-troubleshoot-403-forbidden">>, FALSE, <<>>),
       ErrorPattern(<<{SGM}>>, <<"api-gateway-troubleshoot-403-forbidden">>, FALSE, <<>>),
       ErrorPattern(<<{FBD}>>,
                    <<"api-gateway-troubleshoot-403-forbidden",
                      "api-gateway-vpc-connections">>,
                    FALSE, <<>>),
       ErrorPattern(<<{AHR}>>, <<"api-gateway-troubleshoot-403-forbidden">>,
                    TRUE, <<{AHR}>>),
       ErrorPattern(<<{M502}>>, <<"malformed-502-api-gateway">>, FALSE, <<>>),
       ErrorPattern(<<{EFC}>>, <<"api-gateway-500-error-vpc">>, FALSE, <<>>) >>

(***************************************************************************)
(* re.search for the two regex shapes of the catalog.                      *)
(***************************************************************************)
Min(S) == CHOOSE m \in S : \A n \in S : m <= n
Max(S) == CHOOSE m \in S : \A n \in S : m >= n

\* the phrase matches the tokens of s at positions j .. j+Len(phrase)-1
OccursAt(phrase, s, j) ==
    /\ j >= 1
    /\ j + Len(phrase) - 1 <= Len(s)
    /\ \A k \in 1..Len(phrase) : s[j + k - 1] \in phrase[k]

\* a dot matches every character but a newline: .* can cover s[i..j]
DotStar(s, i, j) == \A k \in i..j : s[k] # NL

\* the positions at which the phrase occurs in s
Occurrences(phrase, s) == {j \in 1..Len(s) : OccursAt(phrase, s, j)}

\* start positions at which .*phrase.* matches: the phrase occurs at or
\* after the start, with no newline in between
MatchStarts(phrase, s) ==
    LET occ == Occurrences(phrase, s)
    IN  IF occ = {} THEN {}
        ELSE {i \in 1..Len(s) : \E j \in occ : j >= i /\ DotStar(s, i, j - 1)}

\* the greedy trailing .* runs to the end of the line
MatchEnd(s, i) == Max({e \in (i - 1)..Len(s) : DotStar(s, i, e)})

\* re.search of .*phrase.* in s: the span of the leftmost match, or
\* [found |-> FALSE] for None
Search(phrase, s) ==
    LET starts == MatchStarts(phrase, s)
    IN  IF starts = {}
        THEN [found |-> FALSE, start |-> 0, end |-> 0]
        ELSE [found |-> TRUE, start |-> Min(starts),
              end |-> MatchEnd(s, Min(starts))]

\* start positions at which (uuid).*(phrase).* matches
RedactStarts(phrase, s) ==
    LET occ == Occurrences(phrase, s)
    IN  {u \in 1..Len(s) :
            /\ s[u] \in UuidClass
            /\ \E j \in occ : j > u /\ DotStar(s, u + 1, j - 1)}

\* a variant of SearchRedact whose second group runs to the end of the line
SearchRedactToLineEnd(phrase, s) ==
    LET starts == RedactStarts(phrase, s)
    IN  IF starts = {}
        THEN [found |-> FALSE, groups |-> <<>>]
        ELSE LET u == Min(starts)
                 j == Max({p \in Occurrences(phrase, s) :
                             p > u /\ DotStar(s, u + 1, p - 1)})
             IN  [found |-> TRUE, groups |-> << <<s[u]>>, SubSeq(s, j, MatchEnd(s, j)) >>]

\* re.search(redacted_message_pattern, s): the groups of the leftmost match
\* (group 2 is where the greedy first .* leaves it: the last occurrence)
SearchRedact(phrase, s) ==
    LET starts == RedactStarts(phrase, s)
    IN  IF starts = {}
        THEN [found |-> FALSE, groups |-> <<>>]
        ELSE LET u == Min(starts)
                 j == Max({p \in Occurrences(phrase, s) :
                             p > u /\ DotStar(s, u + 1, p - 1)})
             IN  [found |-> TRUE,
                  groups |-> << <<s[u]>>, SubSeq(s, j, j + Len(phrase) - 1) >>]

(***************************************************************************)
(* analyse_logs                                                            *)
(***************************************************************************)
RECURSIVE Join(_, _)
\* sep.join(parts), parts a sequence of strings
Join(sep, parts) ==
    IF Len(parts) = 0 THEN <<>>
    ELSE IF Len(parts) = 1 THEN parts[1]
    ELSE parts[1] \o sep \o Join(sep, Tail(parts))

Returned(value) == [raised |-> "", value |-> value]
Raised(exc)     == [raised |-> exc, value |-> <<>>]

NoErrorFound == <<"No error were found in the log group during the time range provided.">>
NoLogGroup   == <<"No log group was found for the API.">>

ArticleUrls(error) == [k \in DOMAIN error.articles |-> <<KC, error.articles[k]>>]

\* the f-string of the match branch
Report(log_line, articles, access_log_message) ==
    <<"Found the following error:\n\nLog: ">> \o log_line
        \o <<"\n\nRecommended articles:\n">> \o articles \o access_log_message

\* the body of the loop for a rule that matched
BuildReport(error, found, query_logs, access_log_message) ==
    LET log_line  == SubSeq(query_logs, found.start, found.end)
        to_redact == SearchRedact(error.redacted_message_pattern, log_line)
        articles  == Join(<<"\n- ">>, ArticleUrls(error))
    IN  IF error.redact
        THEN IF to_redact.found
             THEN Returned(Report(Join(<<SP>>, to_redact.groups) \o <<REDACTED>>,
                                  articles, access_log_message))
             ELSE Raised("AttributeError")
        ELSE Returned(Report(log_line, articles, access_log_message))

RECURSIVE ScanErrors(_, _, _)
\* for error in ERRORS, from rule i on
ScanErrors(i, query_logs, access_log_message) ==
    IF i > Len(ERRORS)
    THEN Returned(NoErrorFound)
    ELSE LET found == Search(ERRORS[i].pattern, query_logs)
         IN  IF found.found
             THEN BuildReport(ERRORS[i], found, query_logs, access_log_message)
             ELSE ScanErrors(i + 1, query_logs, access_log_message)

analyse_logs(query_logs, access_log_message) ==
    LET message == IF access_log_message # <<>>
                   THEN <<NL>> \o access_log_message
                   ELSE access_log_message
    IN  IF query_logs # <<>>
        THEN ScanErrors(1, query_logs, message)
        ELSE Returned(NoLogGroup)

(***************************************************************************)
(* Bounds of the model                                                     *)
(***************************************************************************)
\* ticks per second: parsed times carry a sub-second part that int() drops
TicksPerSec == 2
\* supplied times lie within MaxSkew ticks of the time of the call
MaxSkew == 1
\* the clock advances by at most MaxDrift ticks between two readings
MaxDrift == 1
\* the backend reports Running at most MaxPolls times per query
MaxPolls == 3
\* records in one get_query_results response
MaxRecords == 1
\* tokens in a log text given to analyse_logs
MaxTokens == 3
\* filler tokens around the request id and the phrase of a redacted line
MaxFill == 2
MaxPages == 2
MaxItems == 2

(***************************************************************************)
(* Program constants                                                       *)
(***************************************************************************)
\* BACKOFF_RATE = 1.5, kept as the fraction 3/2
BACKOFF_RATE_NUM == 3
BACKOFF_RATE_DEN == 2
\* timedelta(minutes=15)
LOOKBACK_MINUTES == 15

LookbackTicks == LOOKBACK_MINUTES * 60 * TicksPerSec
\* the clock when the handler is called, on a whole second
Now0 == LookbackTicks + 2 * (MaxSkew + 1) * TicksPerSec

VARIABLES
    event,                \* the handler's input
    clock,                \* datetime.now() at its last reading, in ticks
    pc,                   \* where check_logs is
    start_time, end_time, \* epoch seconds
    access_log_message,
    log_group, is_access_log_query,   \* arguments of the running query
    response, wait,       \* locals of log_insights_query
    calls,                \* the start_query calls of this invocation, in order
    trace,                \* the running (or last) log_insights_query: its backend
                          \* calls, sleeps and its return or raise, in order
    outcome,              \* what check_logs returned or raised
    query_logs, note, report,         \* analyse_logs: arguments and result
    other_logs, other_report,         \* a second run of analyse_logs
    res_event,            \* check_resource_exists: its input
    res_pc,               \* where check_resource_exists is
    exists, authorized, resource_id,  \* locals of check_resource_exists
    pages,                \* the get_resources pages iterated so far
    res_error,            \* the code of the ClientError caught, if any
    res_result            \* what check_resource_exists returned or raised

handlerVars == <<event, clock, pc, start_time, end_time, access_log_message,
                 log_group, is_access_log_query, response, wait, calls, trace,
                 outcome>>
analyseVars == <<query_logs, note, report, other_logs, other_report>>
resourceVars == <<res_event, res_pc, exists, authorized, resource_id, pages,
                  res_error, res_result>>
vars == <<handlerVars, analyseVars, resourceVars>>

(***************************************************************************)
(* Time strings.  A supplied string either fails to parse or parses to a   *)
(* datetime, in ticks since the epoch, that is timezone-aware or naive.    *)
(* The empty string is an omitted value.                                   *)
(***************************************************************************)
Omitted    == [given |-> FALSE, ok |-> FALSE, t |-> 0, aware |-> FALSE]
Unparsable == [given |-> TRUE, ok |-> FALSE, t |-> 0, aware |-> FALSE]
TimeOf(t, aware) == [given |-> TRUE, ok |-> TRUE, t |-> t, aware |-> aware]

TimeTicks == {Now0 + d : d \in (0 - MaxSkew)..MaxSkew} \cup {Now0 - LookbackTicks}
TimeStrings == {Omitted, Unparsable} \cup {TimeOf(t, a) : t \in TimeTicks, a \in BOOLEAN}

\* int(dt.timestamp()): whole seconds (times are never negative here)
Timestamp(t) == t \div TicksPerSec

\* a variant of validate_time_range that accepts an empty window
validate_time_range_or_equal(start, end) ==
    IF start.given /\ end.given
    THEN IF start.ok /\ end.ok /\ start.aware = end.aware
         THEN start.t <= end.t
         ELSE FALSE
    ELSE TRUE

\* parser.parse(a) < parser.parse(b) raises TypeError for a naive and an
\* aware datetime; validate_time_range catches every exception
validate_time_range(start, end) ==
    IF start.given /\ end.given
    THEN IF start.ok /\ end.ok /\ start.aware = end.aware
         THEN start.t < end.t
         ELSE FALSE
    ELSE TRUE

(***************************************************************************)
(* The log backend                                                         *)
(***************************************************************************)
Statuses == {"Scheduled", "Running", "Complete", "Failed", "Timeout", "Cancelled", "Unknown"}
FailedStatuses == {"Failed", "Timeout", "Cancelled", "Unknown"}
StartCodes == {"OK", "ResourceNotFoundException", "ServiceUnavailableException"}

RECURSIVE SeqsUpTo(_, _)
\* the sequences over S of length at most n
SeqsUpTo(S, n) ==
    IF n = 0 THEN {<<>>}
    ELSE LET shorter == SeqsUpTo(S, n - 1)
         IN  shorter \cup {Append(q, x) : q \in shorter, x \in S}

BackendMessages == {<<X>>, <<FBD>>}
\* a row of results: its fields, @message first
Row(message) == << [field |-> "@message", value |-> message],
                   [field |-> "@ptr", value |-> <<"ptr">>] >>
Responses ==
    {[status |-> st, results |-> rs] :
        st \in Statuses, rs \in SeqsUpTo({Row(m) : m \in BackendMessages}, MaxRecords)}
NoResponse == [status |-> "", results |-> <<>>]

Event(op, access, status, value, w) ==
    [op |-> op, access |-> access, status |-> status, value |-> value, wait |-> w]
NoWait == <<0, 1>>

(***************************************************************************)
(* check_logs                                                              *)
(***************************************************************************)
API_ID == "a1b2c3"
STAGE  == "prod"
ACCESS_LOG_ARN == <<"arn", "aws", "logs", "us-east-1", "123456789012", "log-group", "access-logs">>
ACCESS_LOG_NOTE ==
    <<"5XX errors found in access logs. Recommended article for review:\n",
      KC, "api-gateway-find-5xx-errors-cloudwatch">>

Events ==
    [RestApiId : {API_ID}, StageName : {STAGE}, StartTime : TimeStrings,
     EndTime : TimeStrings, AccessLogName : {<<>>, ACCESS_LOG_ARN}]

ExecutionLogGroup(api_id, stage) == <<"API-Gateway-Execution-Logs_", api_id, "/", stage>>
\* access_logs_arn.split(":")[-1]
AccessLogGroup(access_logs_arn) == <<access_logs_arn[Len(access_logs_arn)]>>

\* check_resource_exists is not running
ResourceIdle ==
    /\ res_event = [RestApiId |-> "", ResourcePath |-> ""]
    /\ res_pc = "idle"
    /\ exists = FALSE
    /\ authorized = TRUE
    /\ resource_id = ""
    /\ pages = <<>>
    /\ res_error = ""
    /\ res_result = Returned(<<>>)

Init ==
    /\ ResourceIdle
    /\ event \in Events
    /\ clock = Now0
    /\ pc = "start_time"
    /\ start_time = 0
    /\ end_time = 0
    /\ access_log_message = <<>>
    /\ log_group = <<>>
    /\ is_access_log_query = FALSE
    /\ response = NoResponse
    /\ wait = NoWait
    /\ calls = <<>>
    /\ trace = <<>>
    /\ outcome = Returned(<<>>)
    /\ query_logs = <<>>
    /\ note = <<>>
    /\ report = Returned(<<>>)
    /\ other_logs = <<>>
    /\ other_report = Returned(<<>>)

Fail(exc) ==
    /\ outcome' = Raised(exc)
    /\ pc' = "done"

\* lines 311-319
ResolveStartTime ==
    /\ pc = "start_time"
    /\ IF event.StartTime.given
       THEN /\ IF event.StartTime.ok
               THEN /\ start_time' = Timestamp(event.StartTime.t)
                    /\ pc' = "end_time"
                    /\ UNCHANGED outcome
               ELSE /\ Fail("ValueError")
                    /\ UNCHANGED start_time
            /\ UNCHANGED clock
       ELSE /\ \E d \in 0..MaxDrift : clock' = clock + d
            /\ start_time' = Timestamp(clock' - LookbackTicks)
            /\ pc' = "end_time"
            /\ UNCHANGED outcome
    /\ UNCHANGED <<event, end_time, access_log_message, log_group,
                   is_access_log_query, response, wait, calls, trace, analyseVars, resourceVars>>

\* lines 321-329
ResolveEndTime ==
    /\ pc = "end_time"
    /\ IF event.EndTime.given
       THEN /\ IF event.EndTime.ok
               THEN /\ end_time' = Timestamp(event.EndTime.t)
                    /\ pc' = "validate"
                    /\ UNCHANGED outcome
               ELSE /\ Fail("ValueError")
                    /\ UNCHANGED end_time
            /\ UNCHANGED clock
       ELSE /\ \E d \in 0..MaxDrift : clock' = clock + d
            /\ end_time' = Timestamp(clock')
            /\ pc' = "validate"
            /\ UNCHANGED outcome
    /\ UNCHANGED <<event, start_time, access_log_message, log_group,
                   is_access_log_query, response, wait, calls, trace, analyseVars, resourceVars>>

\* lines 332-346: the range check, then the first log_insights_query call
ValidateAndDispatch ==
    /\ pc = "validate"
    /\ IF ~validate_time_range(event.StartTime, event.EndTime)
       THEN /\ Fail("ValueError")
            /\ UNCHANGED <<log_group, is_access_log_query>>
       ELSE /\ pc' = "start_query"
            /\ IF event.AccessLogName # <<>>
               THEN /\ log_group' = AccessLogGroup(event.AccessLogName)
                    /\ is_access_log_query' = TRUE
               ELSE /\ log_group' = ExecutionLogGroup(event.RestApiId, event.StageName)
                    /\ is_access_log_query' = FALSE
            /\ UNCHANGED outcome
    /\ UNCHANGED <<event, clock, start_time, end_time, access_log_message,
                   response, wait, calls, trace, analyseVars, resourceVars>>

\* join of the first field of every row
QueryText(results) == Join(<<NL>>, [k \in DOMAIN results |-> results[k][1].value])

\* what check_logs does with the value log_insights_query returned
\* (lines 347-357); None is kept as is_none, and is falsy like the empty string
AfterQuery(is_none, value, tr) ==
    IF is_access_log_query
    THEN /\ access_log_message' = IF ~is_none /\ value # <<>> THEN ACCESS_LOG_NOTE ELSE <<>>
         /\ log_group' = ExecutionLogGroup(event.RestApiId, event.StageName)
         /\ is_access_log_query' = FALSE
         /\ pc' = "start_query"
         /\ trace' = tr
         /\ UNCHANGED outcome
    ELSE /\ outcome' = analyse_logs(IF is_none THEN <<>> ELSE value, access_log_message)
         /\ pc' = "done"
         /\ trace' = tr
         /\ UNCHANGED <<access_log_message, log_group, is_access_log_query>>

\* a variant of OnClientError without the case of the missing log group
OnClientErrorAlwaysRaises(error_code) == "raise"

\* lines 260-266: what a failed start_query leads to
OnClientError(error_code) ==
    IF error_code = "ResourceNotFoundException" THEN "return None" ELSE "raise"

\* lines 255-267
StartQuery ==
    /\ pc = "start_query"
    /\ \E code \in StartCodes :
         LET tr == <<Event("start_query", is_access_log_query, code, <<>>, NoWait)>>
         IN  IF code = "OK"
             THEN /\ pc' = "first_poll"
                  /\ trace' = tr
                  /\ UNCHANGED <<outcome, access_log_message, log_group, is_access_log_query>>
             ELSE IF OnClientError(code) = "return None"
             THEN AfterQuery(TRUE, <<>>,
                             Append(tr, Event("return", is_access_log_query, "None", <<>>,
                                              NoWait)))
             ELSE /\ Fail("RuntimeError")
                  /\ trace' = Append(tr, Event("raise", is_access_log_query, code, <<>>,
                                               NoWait))
                  /\ UNCHANGED <<access_log_message, log_group, is_access_log_query>>
    /\ calls' = Append(calls, [access |-> is_access_log_query, logGroupName |-> log_group,
                                startTime |-> start_time, endTime |-> end_time])
    /\ UNCHANGED <<event, clock, start_time, end_time, response, wait, analyseVars, resourceVars>>

Polled(status) ==
    Event("get_query_results", is_access_log_query, status, <<>>, NoWait)

\* lines 269-270
FirstPoll ==
    /\ pc = "first_poll"
    /\ \E r \in Responses :
         /\ response' = r
         /\ trace' = Append(trace, Polled(r.status))
    /\ wait' = <<1, 1>>
    /\ pc' = "loop"
    /\ UNCHANGED <<event, clock, start_time, end_time, access_log_message, log_group,
                   is_access_log_query, calls, outcome, analyseVars, resourceVars>>

Sleeps == {k \in DOMAIN trace : trace[k].op = "sleep"}

\* a variant of NextWait that doubles the wait
NextWaitDoubled(w) == <<w[1] * 2, w[2]>>

\* wait *= BACKOFF_RATE
NextWait(w) == <<w[1] * BACKOFF_RATE_NUM, w[2] * BACKOFF_RATE_DEN>>

\* lines 271-274: one turn of the while loop
PollAgain ==
    /\ pc = "loop"
    /\ response.status = "Running"
    /\ Cardinality(Sleeps) < MaxPolls
    /\ \E r \in Responses :
         /\ response' = r
         /\ trace' = trace \o
               << Event("sleep", is_access_log_query, "", <<>>, wait),
                  Polled(r.status) >>
    /\ wait' = NextWait(wait)
    /\ UNCHANGED <<event, clock, pc, start_time, end_time, access_log_message, log_group,
                   is_access_log_query, calls, outcome, analyseVars, resourceVars>>

\* the test of line 276
QueryFails(is_access, status) == ~is_access /\ status \in FailedStatuses

\* lines 276-281, and the caller from the return on
FinishQuery ==
    /\ pc = "loop"
    /\ response.status # "Running"
    /\ IF QueryFails(is_access_log_query, response.status)
       THEN /\ Fail("RuntimeError")
            /\ trace' = Append(trace, Event("raise", is_access_log_query, response.status,
                                            <<>>, NoWait))
            /\ UNCHANGED <<access_log_message, log_group, is_access_log_query>>
       ELSE LET value == QueryText(response.results)
            IN  AfterQuery(FALSE, value,
                           Append(trace, Event("return", is_access_log_query, "str", value,
                                               NoWait)))
    /\ UNCHANGED <<event, clock, start_time, end_time, response, wait, calls, analyseVars, resourceVars>>

Next ==
    \/ ResolveStartTime
    \/ ResolveEndTime
    \/ ValidateAndDispatch
    \/ StartQuery
    \/ FirstPoll
    \/ PollAgain
    \/ FinishQuery

Spec == Init /\ [][Next]_vars

(***************************************************************************)
(* analyse_logs on its own: every log text of at most MaxTokens tokens     *)
(***************************************************************************)
LogTokens ==
    {NL, X, U1, NetU, NetL, EFC, IEA, TMO, MLP, L429, U401, MAT, NAP, NAA, UAN, UIS,
     WED, STI, SGX, IAK, SGM, FBD, AHR, M502}

Idle ==
    /\ ResourceIdle
    /\ event = [RestApiId |-> API_ID, StageName |-> STAGE, StartTime |-> Omitted,
                EndTime |-> Omitted, AccessLogName |-> <<>>]
    /\ clock = Now0
    /\ start_time = 0
    /\ end_time = 0
    /\ access_log_message = <<>>
    /\ log_group = <<>>
    /\ is_access_log_query = FALSE
    /\ response = NoResponse
    /\ wait = NoWait
    /\ calls = <<>>
    /\ trace = <<>>
    /\ outcome = Returned(<<>>)

InitAnalyse ==
    /\ Idle
    /\ pc = "call"
    /\ query_logs \in SeqsUpTo(LogTokens, MaxTokens)
    /\ note = <<>>
    /\ report = Returned(<<>>)
    /\ other_logs = <<>>
    /\ other_report = Returned(<<>>)

Analyse ==
    /\ pc = "call"
    /\ \E n \in {<<>>, ACCESS_LOG_NOTE} :
         /\ note' = n
         /\ report' = analyse_logs(query_logs, n)
    /\ pc' = "done"
    /\ UNCHANGED <<event, clock, start_time, end_time, access_log_message, log_group,
                   is_access_log_query, response, wait, calls, trace, outcome,
                   query_logs, other_logs, other_report, resourceVars>>

NextAnalyse == Analyse

SpecAnalyse == InitAnalyse /\ [][NextAnalyse]_vars

(***************************************************************************)
(* analyse_logs on two log texts whose matched line starts with the same   *)
(* request id and holds the same phrase, and that differ in the filler     *)
(* around them                                                             *)
(***************************************************************************)
FillTokens == {X, U2}

\* the filler before and after the phrase: at most MaxFill tokens together
Fillers ==
    {f \in SeqsUpTo(FillTokens, MaxFill) \X SeqsUpTo(FillTokens, MaxFill) :
        Len(f[1]) + Len(f[2]) <= MaxFill}

\* the token sequences a phrase matches
RECURSIVE Instances(_)
Instances(phrase) ==
    IF Len(phrase) = 0 THEN {<<>>}
    ELSE {<<t>> \o rest : t \in phrase[1], rest \in Instances(Tail(phrase))}

RedactedLine(uuid, words, f) == <<uuid>> \o f[1] \o words \o f[2]

InitRedact ==
    /\ Idle
    /\ pc = "call"
    /\ \E i \in {r \in DOMAIN ERRORS : ERRORS[r].redact} :
       \E words \in Instances(ERRORS[i].pattern) :
       \E head \in {<<>>, <<X, NL>>} :
       \E fa \in Fillers, fb \in Fillers :
         /\ query_logs = head \o RedactedLine(U1, words, fa)
         /\ other_logs = head \o RedactedLine(U1, words, fb)
    /\ note = <<>>
    /\ report = Returned(<<>>)
    /\ other_report = Returned(<<>>)

AnalyseBoth ==
    /\ pc = "call"
    /\ \E n \in {<<>>, ACCESS_LOG_NOTE} :
         /\ note' = n
         /\ report' = analyse_logs(query_logs, n)
         /\ other_report' = analyse_logs(other_logs, n)
    /\ pc' = "done"
    /\ UNCHANGED <<event, clock, start_time, end_time, access_log_message, log_group,
                   is_access_log_query, response, wait, calls, trace, outcome,
                   query_logs, other_logs, resourceVars>>

NextRedact == AnalyseBoth

SpecRedact == InitRedact /\ [][NextRedact]_vars

(***************************************************************************)
(* check_resource_exists: the pages of get_resources are iterated one by   *)
(* one; the iteration ends, or a ClientError is raised, before any page    *)
(* and after each.                                                         *)
(***************************************************************************)
RESOURCE_PATH == "/pets"

\* the items a page can hold: the path asked for under one of two ids, or
\* another path
Items ==
    {[path |-> RESOURCE_PATH, id |-> "r1"], [path |-> RESOURCE_PATH, id |-> "r2"],
     [path |-> "/", id |-> "r0"]}
Pages == SeqsUpTo(Items, MaxItems)

ResourceEvents == [RestApiId : {"", API_ID}, ResourcePath : {"", RESOURCE_PATH}]
ResourceErrorCodes == {"NotFoundException", "UnauthorizedException", "TooManyRequestsException"}

\* the record check_resource_exists returns
ResourceRecord(e, a, id) == [ResourceExists |-> e, Authorized |-> a, ResourceId |-> id]

RECURSIVE ScanItems(_, _, _)
\* lines 46-49: the items of a page in order, from the locals so far
ScanItems(items, resource_path, found) ==
    IF items = <<>> THEN found
    ELSE ScanItems(Tail(items), resource_path,
                   IF Head(items).path = resource_path
                   THEN [exists |-> TRUE, resource_id |-> Head(items).id]
                   ELSE found)

InitResource ==
    /\ event = [RestApiId |-> API_ID, StageName |-> STAGE, StartTime |-> Omitted,
                EndTime |-> Omitted, AccessLogName |-> <<>>]
    /\ clock = Now0
    /\ start_time = 0
    /\ end_time = 0
    /\ access_log_message = <<>>
    /\ log_group = <<>>
    /\ is_access_log_query = FALSE
    /\ response = NoResponse
    /\ wait = NoWait
    /\ calls = <<>>
    /\ trace = <<>>
    /\ outcome = Returned(<<>>)
    /\ pc = "idle"
    /\ query_logs = <<>>
    /\ note = <<>>
    /\ report = Returned(<<>>)
    /\ other_logs = <<>>
    /\ other_report = Returned(<<>>)
    /\ res_event \in ResourceEvents
    /\ res_pc = "start"
    /\ exists = FALSE
    /\ authorized = TRUE
    /\ resource_id = ""
    /\ pages = <<>>
    /\ res_error = ""
    /\ res_result = Returned(<<>>)

\* lines 32-40
CheckArguments ==
    /\ res_pc = "start"
    /\ IF res_event.RestApiId = "" \/ res_event.ResourcePath = ""
       THEN /\ res_result' = Returned(ResourceRecord(exists, authorized, resource_id))
            /\ res_pc' = "done"
       ELSE /\ res_pc' = "paging"
            /\ UNCHANGED res_result
    /\ UNCHANGED <<res_event, exists, authorized, resource_id, pages, res_error,
                   handlerVars, analyseVars>>

\* lines 45-49: the iterator yields one more page
NextPage ==
    /\ res_pc = "paging"
    /\ Len(pages) < MaxPages
    /\ \E page \in Pages :
         LET found == ScanItems(page, res_event.ResourcePath,
                                [exists |-> exists, resource_id |-> resource_id])
         IN  /\ pages' = Append(pages, page)
             /\ exists' = found.exists
             /\ resource_id' = found.resource_id
    /\ UNCHANGED <<res_event, res_pc, authorized, res_error, res_result,
                   handlerVars, analyseVars>>

\* lines 45 and 63: the iterator is exhausted
PagingEnds ==
    /\ res_pc = "paging"
    /\ res_result' = Returned(ResourceRecord(exists, authorized, resource_id))
    /\ res_pc' = "done"
    /\ UNCHANGED <<res_event, exists, authorized, resource_id, pages, res_error,
                   handlerVars, analyseVars>>

\* lines 51-63: the iterator raises a ClientError
PagingFails ==
    /\ res_pc = "paging"
    /\ \E error_code \in ResourceErrorCodes :
         /\ res_error' = error_code
         /\ IF error_code = "NotFoundException"
            THEN /\ exists' = FALSE
                 /\ res_result' = Returned(ResourceRecord(FALSE, authorized, resource_id))
                 /\ UNCHANGED authorized
            ELSE IF error_code = "UnauthorizedException"
            THEN /\ authorized' = FALSE
                 /\ res_result' = Returned(ResourceRecord(exists, FALSE, resource_id))
                 /\ UNCHANGED exists
            ELSE /\ res_result' = Raised("RuntimeError")
                 /\ UNCHANGED <<exists, authorized>>
    /\ res_pc' = "done"
    /\ UNCHANGED <<res_event, resource_id, pages, handlerVars, analyseVars>>

NextResource ==
    \/ CheckArguments
    \/ NextPage
    \/ PagingEnds
    \/ PagingFails

SpecResource == InitResource /\ [][NextResource]_vars

(***************************************************************************)
(* Properties                                                              *)
(***************************************************************************)
\* the rules whose pattern matches somewhere in the text
Matching(text) ==
    {i \in DOMAIN ERRORS : \E j \in 1..Len(text) : OccursAt(ERRORS[i].pattern, text, j)}
FirstMatching(text) == Min(Matching(text))

NoteSuffix(n) == IF n = <<>> THEN <<>> ELSE <<NL>> \o n

StartsWith(s, prefix) ==
    Len(s) >= Len(prefix) /\ SubSeq(s, 1, Len(prefix)) = prefix
EndsWith(s, suffix) ==
    Len(s) >= Len(suffix) /\ SubSeq(s, Len(s) - Len(suffix) + 1, Len(s)) = suffix

IsReport(value) == StartsWith(value, <<"Found the following error:\n\nLog: ">>)

\* the articles part of a report built from rule i, to the end of the report
ArticlesPart(i, n) ==
    <<"\n\nRecommended articles:\n">> \o Join(<<"\n- ">>, ArticleUrls(ERRORS[i]))
        \o NoteSuffix(n)

\* the span a rule's pattern matches in the text
MatchedSpan(i, text) ==
    LET found == Search(ERRORS[i].pattern, text)
    IN  SubSeq(text, found.start, found.end)

\* C1: for every rule with redact set, the redacted_message_pattern matches
\* every span that the pattern of the rule matches, and so the re-match of
\* the rule analyse_logs selected never fails.
C1_RedactionPatternCoversPattern ==
    pc = "done" =>
        /\ \A i \in DOMAIN ERRORS :
             ERRORS[i].redact /\ Search(ERRORS[i].pattern, query_logs).found
                => SearchRedact(ERRORS[i].redacted_message_pattern,
                                MatchedSpan(i, query_logs)).found
        /\ report.raised # "AttributeError"

\* C6: for a non-empty log text that some rule matches, analyse_logs returns
\* a report built from the matching rule of least index, and the report ends
\* with that rule's articles in catalog order (and the access-log note).
C6_FirstMatchWins ==
    pc = "done" /\ query_logs # <<>> /\ Matching(query_logs) # {} =>
        /\ report.raised = ""
        /\ IsReport(report.value)
        /\ EndsWith(report.value, ArticlesPart(FirstMatching(query_logs), note))

\* C7: for a non-empty log text that no rule matches, analyse_logs returns
\* the no-errors sentinel, followed by the access-log note when one was given.
C7_NoMatchKeepsNote ==
    pc = "done" /\ query_logs # <<>> /\ Matching(query_logs) = {} =>
        report = Returned(NoErrorFound \o NoteSuffix(note))

\* the rule's phrase as text
PhraseText(i) == [k \in DOMAIN ERRORS[i].pattern |-> CHOOSE t \in ERRORS[i].pattern[k] : TRUE]

\* rule i is the rule analyse_logs selects for the text, it redacts, and the
\* line it matched starts with the request id u and holds the phrase later
RedactedForm(text, i, u) ==
    /\ u \in UuidClass
    /\ Matching(text) # {}
    /\ FirstMatching(text) = i
    /\ ERRORS[i].redact
    /\ LET line == MatchedSpan(i, text)
       IN  /\ Len(line) >= 2
           /\ line[1] = u
           /\ \E j \in 2..Len(line) : OccursAt(ERRORS[i].pattern, line, j)

\* the first token of the line that the selected rule matched
FirstOfMatchedLine(text) == MatchedSpan(FirstMatching(text), text)[1]

\* C9: when the selected rule redacts and the matched line starts with a
\* parenthesised request id and holds the rule's phrase, the log text of the
\* report is the request id, one space, the phrase and the redaction marker
\* and nothing else; two texts of this form with the same request id and the
\* same selected rule, however the rest of the matched line differs, get the
\* same report.
C9_RedactionHidesContext ==
    pc = "done" /\ Matching(query_logs) # {} =>
        LET i == FirstMatching(query_logs)
            u == FirstOfMatchedLine(query_logs)
        IN  RedactedForm(query_logs, i, u) =>
                /\ report = Returned(<<"Found the following error:\n\nLog: ", u, SP>>
                                        \o PhraseText(i) \o <<REDACTED>>
                                        \o ArticlesPart(i, note))
                /\ RedactedForm(other_logs, i, u) => other_report = report

\* two texts that differ in the filler on both sides of the phrase, with
\* another request id in the filler of one of them, get one redacted report
C9_Witness ==
    /\ pc = "done"
    /\ \E i \in DOMAIN ERRORS :
         RedactedForm(query_logs, i, U1) /\ RedactedForm(other_logs, i, U1)
    /\ Len(query_logs) = Len(other_logs)
    /\ Len(query_logs) >= 4
    /\ query_logs[2] = X /\ other_logs[2] = U2
    /\ query_logs[Len(query_logs)] = U2 /\ other_logs[Len(other_logs)] = X
    /\ report.raised = ""
    /\ other_report = report

(***************************************************************************)
(* Properties of check_logs and log_insights_query                         *)
(***************************************************************************)
Last(q) == q[Len(q)]

\* the running log_insights_query call has returned or raised
Ended == trace # <<>> /\ Last(trace).op \in {"return", "raise"}

\* C2: every start_query call carries a window whose start is before its end.
C2_WindowStartBeforeEnd ==
    \A k \in DOMAIN calls : calls[k].startTime < calls[k].endTime

\* the input C3 is about: a supplied time that does not parse, or two
\* supplied times of which the first is not before the second
InvalidInput ==
    \/ event.StartTime.given /\ ~event.StartTime.ok
    \/ event.EndTime.given /\ ~event.EndTime.ok
    \/ /\ event.StartTime.given /\ event.StartTime.ok
       /\ event.EndTime.given /\ event.EndTime.ok
       /\ ~(event.StartTime.t < event.EndTime.t)

\* C3: on such input no backend call is ever made, the handler goes on until
\* it is done, and it ends raising the invalid-input error.
C3_InvalidInputRaisesBeforeBackend ==
    InvalidInput =>
        /\ calls = <<>>
        /\ trace = <<>>
        /\ pc \in {"start_time", "end_time", "validate", "done"}
        /\ pc # "done" => ENABLED Next
        /\ pc = "done" => outcome = Raised("ValueError")

\* both times supplied and parsed, the start not before the end: raised
C3_Witness ==
    /\ pc = "done"
    /\ outcome = Raised("ValueError")
    /\ event.StartTime.ok /\ event.EndTime.ok
    /\ event.StartTime.aware = event.EndTime.aware
    /\ event.StartTime.t >= event.EndTime.t
    /\ calls = <<>>

C5_FailedStatusRaisesUnlessAccessLog ==
    Ended /\ Len(trace) >= 3 /\ trace[Len(trace) - 1].status \in FailedStatuses =>
        LET last == Last(trace)
            poll == trace[Len(trace) - 1]
        IN  /\ (last.op = "raise" /\ last.status = poll.status) <=> ~last.access
            /\ last.access => last.op = "return" /\ last.value = <<>>

\* C8: check_logs returns the no-log-group sentinel only when the
\* execution-log query returned None for a missing log group; when the log
\* group exists and the query ends Complete, with or without records, the
\* result is a report or the no-errors sentinel.
C8_NoLogGroupOnlyWhenNotFound ==
    pc = "done" /\ Ended /\ Last(trace).op = "return" =>
        /\ outcome = Returned(NoLogGroup) =>
             Last(trace).status = "None"
                /\ trace[1].status = "ResourceNotFoundException"
        /\ Len(trace) >= 3 /\ trace[Len(trace) - 1].status = "Complete" =>
             /\ outcome.raised = ""
             /\ IsReport(outcome.value) \/ outcome.value = NoErrorFound

RECURSIVE Pow(_, _)
Pow(b, e) == IF e = 0 THEN 1 ELSE b * Pow(b, e - 1)

\* C10: the k-th sleep of log_insights_query waits 1.5^(k-1) units; a sleep
\* comes right after a poll that reported Running and right before the one
\* poll that follows it; after a poll that reports another status the query
\* only returns or raises.
C10_BackoffSequence ==
    \A k \in DOMAIN trace :
        /\ trace[k].op = "sleep" =>
             LET n == Cardinality({j \in 1..k : trace[j].op = "sleep"})
             IN  /\ trace[k].wait[1] * Pow(2, n - 1) = trace[k].wait[2] * Pow(3, n - 1)
                 /\ k > 1 /\ trace[k - 1].op = "get_query_results"
                 /\ trace[k - 1].status = "Running"
                 /\ k < Len(trace) /\ trace[k + 1].op = "get_query_results"
                 /\ k + 1 < Len(trace) => trace[k + 2].op # "get_query_results"
        /\ trace[k].op = "get_query_results" /\ trace[k].status # "Running" /\ k < Len(trace)
             => k + 1 = Len(trace) /\ trace[k + 1].op \in {"return", "raise"}

\* Running on three polls in a row: waits of 1, 1.5 and 2.25
C10_Witness ==
    /\ Len(trace) >= 7
    /\ trace[2].status = "Running" /\ trace[4].status = "Running"
    /\ trace[6].status = "Running"
    /\ trace[3].op = "sleep" /\ trace[3].wait = <<1, 1>>
    /\ trace[5].op = "sleep" /\ trace[5].wait = <<3, 2>>
    /\ trace[7].op = "sleep" /\ trace[7].wait = <<9, 4>>

\* the access-log query has just returned without raising, in one of the
\* ways C11 names: None for a missing log group, after a poll that reported
\* a failure status, or with no records
AccessStepEndedQuietly ==
    /\ trace # <<>>
    /\ Last(trace).access
    /\ Last(trace).op = "return"
    /\ \/ Last(trace).status = "None"
       \/ Last(trace).value = <<>>
       \/ Len(trace) >= 3 /\ trace[Len(trace) - 1].status \in FailedStatuses

\* C11: when AccessLogName is supplied the access-log query is submitted
\* first and the execution-log query after it, at most once; an access-log
\* query never raises for a failure status; and when it ends with None, a
\* failure status or no records, check_logs has not raised, holds no
\* advisory note, and submits the execution-log query next.
C11_AccessLogStepBestEffort ==
    /\ Len(calls) <= 2
    /\ \A k \in DOMAIN calls :
         calls[k].access <=> (event.AccessLogName # <<>> /\ k = 1)
    /\ trace # <<>> /\ Last(trace).access /\ Last(trace).op = "raise"
         => Last(trace).status \notin FailedStatuses
    /\ AccessStepEndedQuietly =>
         /\ pc = "start_query"
         /\ ~is_access_log_query
         /\ outcome.raised = ""
         /\ access_log_message = <<>>
         /\ Len(calls) = 1
         /\ ENABLED StartQuery

\* C12: a query that is not an access-log query returns a result string
\* only when the last status it polled was Complete.
C12_ReturnsOnlyWhenComplete ==
    Ended /\ ~Last(trace).access /\ Last(trace).op = "return"
          /\ Last(trace).status = "str"
        => /\ Len(trace) >= 3
           /\ trace[Len(trace) - 1].op = "get_query_results"
           /\ trace[Len(trace) - 1].status = "Complete"

\* the rule the loop of analyse_logs stops at for this text is rule i: its
\* pattern is found and the pattern of no rule before it is
Selects(i, text) ==
    /\ Search(ERRORS[i].pattern, text).found
    /\ \A k \in 1..(i - 1) : ~Search(ERRORS[k].pattern, text).found

\* C13: for every rule of the catalog there is a log text, among the texts
\* analyse_logs is given, for which analyse_logs selects that rule; the rule
\* selected for the text at hand is the first of the rules that match it.
C13_EveryRuleReachable ==
    /\ \A i \in DOMAIN ERRORS :
         \E text \in SeqsUpTo(LogTokens, MaxTokens) : Selects(i, text)
    /\ Matching(query_logs) # {} => Selects(FirstMatching(query_logs), query_logs)

\* C14: the record check_resource_exists returns has a ResourceId exactly
\* when ResourceExists is true, and Authorized false only with
\* ResourceExists false, whatever pages were iterated and wherever the
\* paging failed.
C14_ResourceRecordConsistent ==
    res_pc = "done" /\ res_result.raised = "" =>
        LET r == res_result.value
        IN  /\ (r.ResourceId # "") <=> r.ResourceExists
            /\ ~r.Authorized => ~r.ResourceExists

=============================================================================
